---- MODULE Spec2Model ----
(***************************************************************************)
(* find_replace_from_csv (csvreplace.py): load (find, replace) pairs from  *)
(* the rows of a CSV file, apply them in order to the text of an input     *)
(* file with str.replace, and write the result to an output file.          *)
(*                                                                         *)
(* A text is a sequence of one-character strings.  A CSV row is the        *)
(* sequence of fields csv.reader yields for one record.                    *)
(***************************************************************************)
EXTENDS Integers, Sequences, FiniteSets, TLC

VARIABLES
    csv_rows,       \* the records of the file at csv_path
    has_header,     \* the has_header argument
    input_text,     \* the text of the file at input_path
    output_file,    \* the file at output_path: [exists, data]
    pc,             \* position of the call in the function body
    reader,         \* the rows csv.reader has not yielded yet
    i,              \* the enumerate() index of the row loop
    replacements,   \* the list of (find_text, replace_text) pairs
    content,        \* the working buffer
    k,              \* 1-based index of the next pair of the replacement loop
    printed,        \* the messages printed so far, in order
    result,         \* "none" while running, then "True" or "False"
    fault,          \* the I/O failure the environment raised, or "none"
    output_before,  \* the file at output_path when the call started
    runs            \* number of calls started on these files

vars == <<csv_rows, has_header, input_text, output_file, pc, reader, i,
          replacements, content, k, printed, result, fault, output_before,
          runs>>

----------------------------------------------------------------------------
(* Bounds of the checked instances: the records of the CSV file, the pairs *)
(* of a pair list, the length of a source text, the calls in succession,   *)
(* and the longest output that is fed to a further call.                   *)

MaxRows == 3
MaxPairs == 2
MaxSrcLen == 4
MaxRuns == 2
MaxRerunLen == 8

SeqsUpTo(S, n) == UNION {[1..m -> S] : m \in 0..n}

Letters == {"a", "b"}
Whitespace == {" "}

E == <<>>
SP == <<" ">>

----------------------------------------------------------------------------
(* Pure text functions. *)

RECURSIVE lstrip(_)
lstrip(s) ==
    IF s = <<>> THEN s
    ELSE IF Head(s) \in Whitespace THEN lstrip(Tail(s)) ELSE s

RECURSIVE rstrip(_)
rstrip(s) ==
    IF s = <<>> THEN s
    ELSE IF s[Len(s)] \in Whitespace THEN rstrip(SubSeq(s, 1, Len(s) - 1)) ELSE s

(* variant: only the leading whitespace is removed *)
strip_leading(s) == lstrip(s)

strip(s) == rstrip(lstrip(s))

RECURSIVE replace_empty(_, _)
replace_empty(s, new) ==
    IF s = <<>> THEN new
    ELSE new \o <<Head(s)>> \o replace_empty(Tail(s), new)

(* variant: only the first occurrence is replaced *)
RECURSIVE replace_first(_, _, _)
replace_first(s, old, new) ==
    IF Len(s) < Len(old) THEN s
    ELSE IF SubSeq(s, 1, Len(old)) = old
         THEN new \o SubSeq(s, Len(old) + 1, Len(s))
         ELSE <<Head(s)>> \o replace_first(Tail(s), old, new)

(* variant: after a replacement the scan resumes one character further, *)
(* inside the occurrence just replaced                                  *)
RECURSIVE replace_resume_next(_, _, _)
replace_resume_next(s, old, new) ==
    IF Len(s) < Len(old) THEN s
    ELSE IF SubSeq(s, 1, Len(old)) = old
         THEN new \o replace_resume_next(Tail(s), old, new)
         ELSE <<Head(s)>> \o replace_resume_next(Tail(s), old, new)

RECURSIVE replace_scan(_, _, _)
replace_scan(s, old, new) ==
    IF Len(s) < Len(old) THEN s
    ELSE IF SubSeq(s, 1, Len(old)) = old
         THEN new \o replace_scan(SubSeq(s, Len(old) + 1, Len(s)), old, new)
         ELSE <<Head(s)>> \o replace_scan(Tail(s), old, new)

replace(s, old, new) ==
    IF old = <<>> THEN replace_empty(s, new) ELSE replace_scan(s, old, new)

----------------------------------------------------------------------------
(* Printed messages. *)

Msg(kind, row, f, r) == [kind |-> kind, row |-> row, find |-> f, repl |-> r]
Note(kind) == Msg(kind, 0, E, E)

NoFile == [exists |-> FALSE, data |-> E]
File(text) == [exists |-> TRUE, data |-> text]

Prefixes(s) == {SubSeq(s, 1, n) : n \in 0..Len(s)}

(* return False from an except clause *)
Fail(kind, what) ==
    /\ printed' = Append(printed, Note(kind))
    /\ fault' = what
    /\ result' = "False"
    /\ pc' = "done"

----------------------------------------------------------------------------
(* The call, step by step. *)

StartState(rows, header, text, out, n) ==
    /\ csv_rows = rows
    /\ has_header = header
    /\ input_text = text
    /\ output_file = out
    /\ pc = "open_csv"
    /\ reader = E
    /\ i = 0
    /\ replacements = E
    /\ content = E
    /\ k = 1
    /\ printed = E
    /\ result = "none"
    /\ fault = "none"
    /\ output_before = out
    /\ runs = n

(* variant: StopIteration is passed over without the warning *)
HeaderSkip_Silent(rows) ==
    IF rows = E
    THEN [reader |-> E, msg |-> Note("header_skipped")]
    ELSE [reader |-> Tail(rows), msg |-> Note("header_skipped")]

(* lines 21-26: next(reader), or the warning on StopIteration *)
HeaderSkip(rows) ==
    IF rows = E
    THEN [reader |-> E, msg |-> Note("warn_empty_header")]
    ELSE [reader |-> Tail(rows), msg |-> Note("header_skipped")]

(* lines 17-26 and 40-45: open the CSV file and skip the header row *)
OpenCsv ==
    /\ pc = "open_csv"
    /\ \/ /\ pc' = "rows"
          /\ IF has_header
             THEN /\ reader' = HeaderSkip(csv_rows).reader
                  /\ printed' = Append(printed, HeaderSkip(csv_rows).msg)
             ELSE /\ reader' = csv_rows
                  /\ printed' = printed
          /\ UNCHANGED <<result, fault>>
       \/ /\ Fail("err_csv_not_found", "csv_not_found")
          /\ UNCHANGED reader
       \/ /\ Fail("err_csv_read", "csv_read")
          /\ UNCHANGED reader
    /\ UNCHANGED <<csv_rows, has_header, input_text, output_file, i,
                   replacements, content, k, output_before, runs>>

(* variant: the header row is not counted *)
row_num_no_header == i + 1

(* lines 33 and 38: the row number a warning names *)
row_num_for_warning == IF has_header THEN i + 2 ELSE i + 1

(* variant: a row with an empty find term is dropped without a warning *)
ParseRow_SilentEmptyFind(row, num) ==
    IF Len(row) >= 2
    THEN LET find_text == strip(row[1])
             replace_text == strip(row[2])
         IN IF find_text = E
            THEN [pairs |-> E, warnings |-> E]
            ELSE [pairs |-> <<(<<find_text, replace_text>>)>>, warnings |-> E]
    ELSE [pairs |-> E, warnings |-> <<Msg("warn_columns", num, E, E)>>]

(* lines 28-39: the body of the row loop: the pairs it appends and the *)
(* warnings it prints for one row                                      *)
ParseRow(row, num) ==
    IF Len(row) >= 2
    THEN LET find_text == strip(row[1])
             replace_text == strip(row[2])
         IN IF find_text = E
            THEN [pairs |-> E, warnings |-> <<Msg("warn_empty_find", num, E, E)>>]
            ELSE [pairs |-> <<(<<find_text, replace_text>>)>>, warnings |-> E]
    ELSE [pairs |-> E, warnings |-> <<Msg("warn_columns", num, E, E)>>]

(* lines 27-39: one iteration of the row loop *)
LoadRow ==
    /\ pc = "rows"
    /\ reader # E
    /\ LET parsed == ParseRow(Head(reader), row_num_for_warning)
       IN /\ replacements' = replacements \o parsed.pairs
          /\ printed' = printed \o parsed.warnings
    /\ reader' = Tail(reader)
    /\ i' = i + 1
    /\ UNCHANGED <<csv_rows, has_header, input_text, output_file, pc,
                   content, k, result, fault, output_before, runs>>

(* lines 43-45: reading the next record raises (decoding error, csv.Error) *)
CsvError ==
    /\ pc = "rows"
    /\ Fail("err_csv_read", "csv_read")
    /\ UNCHANGED <<csv_rows, has_header, input_text, output_file, reader, i,
                   replacements, content, k, output_before, runs>>

(* lines 27 and 47-48: the reader is exhausted; branch on the pair list *)
EndRows ==
    /\ pc = "rows"
    /\ reader = E
    /\ IF replacements = E
       THEN /\ printed' = Append(printed, Note("no_pairs"))
            /\ pc' = "copy"
       ELSE /\ printed' = printed
            /\ pc' = "read_input"
    /\ UNCHANGED <<csv_rows, has_header, input_text, output_file, reader, i,
                   replacements, content, k, result, fault, output_before, runs>>

(* open(output_path, 'w') then write(text): the file after the attempt. *)
(* A failing open leaves the file alone and is reported by the except   *)
(* clause that matches its exception; a failing write leaves a part.    *)
WriteFile(text, okKind, openErrKinds, errKind) ==
    \/ /\ output_file' = File(text)
       /\ printed' = Append(printed, Note(okKind))
       /\ result' = "True"
       /\ pc' = "done"
       /\ fault' = fault
    \/ /\ output_file' = output_file
       /\ \E kind \in openErrKinds : Fail(kind, "out_open")
    \/ /\ \E part \in Prefixes(text) : output_file' = File(part)
       /\ Fail(errKind, "out_write")

(* variant: True is returned without the copy being written *)
CopyInput_NoWrite ==
    /\ pc = "copy"
    /\ \/ /\ content' = input_text
          /\ printed' = Append(printed, Note("copied"))
          /\ result' = "True"
          /\ pc' = "done"
          /\ UNCHANGED <<fault, output_file>>
       \/ /\ Fail("err_input_not_found_copy", "input_not_found")
          /\ UNCHANGED <<content, output_file>>
       \/ /\ Fail("err_copy", "input_read")
          /\ UNCHANGED <<content, output_file>>
    /\ UNCHANGED <<csv_rows, has_header, input_text, reader, i, replacements,
                   k, output_before, runs>>

(* variant: the output file is opened for writing before the input is read *)
CopyInput_OpenFirst ==
    /\ pc = "copy"
    /\ \/ /\ content' = input_text
          /\ WriteFile(input_text, "copied",
                       {"err_input_not_found_copy", "err_copy"}, "err_copy")
       \/ /\ Fail("err_input_not_found_copy", "input_not_found")
          /\ output_file' = File(E)
          /\ UNCHANGED content
       \/ /\ Fail("err_copy", "input_read")
          /\ output_file' = File(E)
          /\ UNCHANGED content
    /\ UNCHANGED <<csv_rows, has_header, input_text, reader, i, replacements,
                   k, output_before, runs>>

(* lines 49-62: no pairs, copy the input file to the output file *)
CopyInput ==
    /\ pc = "copy"
    /\ \/ /\ content' = input_text
          /\ WriteFile(input_text, "copied",
                       {"err_input_not_found_copy", "err_copy"}, "err_copy")
       \/ /\ Fail("err_input_not_found_copy", "input_not_found")
          /\ UNCHANGED <<content, output_file>>
       \/ /\ Fail("err_copy", "input_read")
          /\ UNCHANGED <<content, output_file>>
    /\ UNCHANGED <<csv_rows, has_header, input_text, reader, i, replacements,
                   k, output_before, runs>>

(* lines 64-72 and 76: read the input file *)
ReadInput ==
    /\ pc = "read_input"
    /\ \/ /\ content' = input_text
          /\ printed' = Append(printed, Note("performing"))
          /\ pc' = "replace"
          /\ UNCHANGED <<result, fault>>
       \/ /\ Fail("err_input_not_found", "input_not_found")
          /\ UNCHANGED content
       \/ /\ Fail("err_input_read", "input_read")
          /\ UNCHANGED content
    /\ UNCHANGED <<csv_rows, has_header, input_text, output_file, reader, i,
                   replacements, k, output_before, runs>>

(* variant: every pair is applied to the source text, not to the buffer *)
ApplyPair_FromSource ==
    /\ pc = "replace"
    /\ k <= Len(replacements)
    /\ LET find_text == replacements[k][1]
           replace_text == replacements[k][2]
           original_content_len == Len(content)
           new_content == replace(input_text, find_text, replace_text)
       IN /\ content' = new_content
          /\ printed' = IF Len(new_content) # original_content_len
                         THEN Append(printed, Msg("replaced", 0, find_text, replace_text))
                         ELSE printed
    /\ k' = k + 1
    /\ pc' = IF k = Len(replacements) THEN "write" ELSE "replace"
    /\ UNCHANGED <<csv_rows, has_header, input_text, output_file, reader, i,
                   replacements, result, fault, output_before, runs>>

(* lines 77-81: one iteration of the replacement loop *)
ApplyPair ==
    /\ pc = "replace"
    /\ k <= Len(replacements)
    /\ LET find_text == replacements[k][1]
           replace_text == replacements[k][2]
           original_content_len == Len(content)
           new_content == replace(content, find_text, replace_text)
       IN /\ content' = new_content
          /\ printed' = IF Len(new_content) # original_content_len
                         THEN Append(printed, Msg("replaced", 0, find_text, replace_text))
                         ELSE printed
    /\ k' = k + 1
    /\ pc' = IF k = Len(replacements) THEN "write" ELSE "replace"
    /\ UNCHANGED <<csv_rows, has_header, input_text, output_file, reader, i,
                   replacements, result, fault, output_before, runs>>

(* lines 85-92: write the buffer to the output file *)
WriteOutput ==
    /\ pc = "write"
    /\ WriteFile(content, "saved", {"err_write"}, "err_write")
    /\ UNCHANGED <<csv_rows, has_header, input_text, reader, i, replacements,
                   content, k, output_before, runs>>

(* line 157 called again: the output of a successful call becomes the input *)
(* text of the next call, with the same CSV file and has_header            *)
Rerun ==
    /\ pc = "done"
    /\ result = "True"
    /\ runs < MaxRuns
    /\ Len(output_file.data) <= MaxRerunLen
    /\ input_text' = output_file.data
    /\ runs' = runs + 1
    /\ pc' = "open_csv"
    /\ reader' = E
    /\ i' = 0
    /\ replacements' = E
    /\ content' = E
    /\ k' = 1
    /\ printed' = E
    /\ result' = "none"
    /\ fault' = "none"
    /\ output_before' = output_file
    /\ UNCHANGED <<csv_rows, has_header, output_file>>

Next ==
    \/ OpenCsv
    \/ LoadRow
    \/ CsvError
    \/ EndRows
    \/ CopyInput
    \/ ReadInput
    \/ ApplyPair
    \/ WriteOutput

NextTwice == Next \/ Rerun

----------------------------------------------------------------------------
(* Inputs of the checked instances. *)

PadA == <<" ", "a", " ">>
OnlyB == <<"b">>

RawRows ==
    { E,                                         \* a blank record
      <<OnlyB>>,                                 \* one field
      <<SP, OnlyB>>,                             \* find empty once trimmed
      <<E, PadA>>,                               \* find empty
      <<PadA, OnlyB>>,                           \* find to trim
      <<PadA, SP>>,                              \* replace empty once trimmed
      <<OnlyB, PadA>>,                           \* replace to trim
      <<<<"a", " ">>, <<" ", "b">>, <<"a">>>> }  \* a third field

Texts == {<<"a", "b", "a">>}

OldFiles == {NoFile, File(<<"b", "b">>)}

Init ==
    \E rows \in SeqsUpTo(RawRows, MaxRows), header \in BOOLEAN,
       text \in Texts, out \in OldFiles :
        StartState(rows, header, text, out, 1)

Spec == Init /\ [][Next]_vars

PairPool ==
    { <<<<"a">>, <<"b">>>>,
      <<<<"b">>, <<"c">>>>,
      <<<<"a", "a">>, <<"a">>>>,
      <<<<"a", "b">>, E>>,
      <<<<"a", "b">>, <<"c">>>>,
      <<<<"a">>, <<"a", "a">>>>,
      <<<<"a">>, <<"b", "b">>>> }

PairRows(pairs) == [n \in 1..Len(pairs) |-> <<pairs[n][1], pairs[n][2]>>]

(* records before the pair rows: none, or one row whose find is empty *)
Leading == {E, <<(<<SP, OnlyB>>)>>}

InitXform ==
    \E lead \in Leading, pairs \in SeqsUpTo(PairPool, MaxPairs),
       header \in BOOLEAN, text \in SeqsUpTo(Letters, MaxSrcLen) :
        StartState(lead \o PairRows(pairs), header, text, NoFile, 1)

SpecXform == InitXform /\ [][Next]_vars

SpecTwice == InitXform /\ [][NextTwice]_vars

----------------------------------------------------------------------------
(* Vocabulary of the properties. *)

CsvFaults == {"csv_not_found", "csv_read"}
InputFaults == {"input_not_found", "input_read"}

(* the row loop has run to the end of the reader *)
LoadDone == pc \notin {"open_csv", "rows"} /\ fault \notin CsvFaults

(* the replacement loop has run to the end of the pair list *)
PassDone == pc = "write" \/ (pc = "done" /\ replacements # E /\ fault \notin CsvFaults \cup InputFaults)

(* the records after the header row *)
HeaderRows == IF has_header THEN 1 ELSE 0
DataRows == SubSeq(csv_rows, HeaderRows + 1, Len(csv_rows))

(* s without its leading and trailing whitespace, by positions *)
Solid(s) == {n \in 1..Len(s) : s[n] \notin Whitespace}
Least(S) == CHOOSE n \in S : \A m \in S : n <= m
Greatest(S) == CHOOSE n \in S : \A m \in S : m <= n
Trimmed(s) == IF Solid(s) = {} THEN E ELSE SubSeq(s, Least(Solid(s)), Greatest(Solid(s)))

Usable(row) == Len(row) >= 2 /\ Trimmed(row[1]) # E

PairsOf(rows) ==
    LET kept == SelectSeq(rows, Usable)
    IN [n \in 1..Len(kept) |-> <<Trimmed(kept[n][1]), Trimmed(kept[n][2])>>]

IsSkipWarning(m) == m.kind \in {"warn_empty_find", "warn_columns"}
SkipWarnings == SelectSeq(printed, IsSkipWarning)

(* 1-based positions, in the record sequence, of the data rows that are skipped *)
RECURSIVE SkippedFrom(_)
SkippedFrom(n) ==
    IF n > Len(csv_rows) THEN E
    ELSE (IF Usable(csv_rows[n]) THEN E ELSE <<n>>) \o SkippedFrom(n + 1)
SkippedPositions == SkippedFrom(HeaderRows + 1)

Printed(kind) == \E n \in 1..Len(printed) : printed[n].kind = kind

(* find occurs in s *)
OccursAt(s, f, p) == p + Len(f) - 1 <= Len(s) /\ SubSeq(s, p, p + Len(f) - 1) = f
Contains(s, f) == \E p \in 1..(Len(s) + 1) : OccursAt(s, f, p)

(* the starts of the occurrences a left-to-right non-overlapping scan takes *)
RECURSIVE ScanStarts(_, _, _)
ScanStarts(s, f, from) ==
    LET hits == {p \in from..Len(s) : OccursAt(s, f, p)}
    IN IF hits = {} THEN E
       ELSE <<Least(hits)>> \o ScanStarts(s, f, Least(hits) + Len(f))

(* s with the occurrences at starts replaced, the rest copied *)
RECURSIVE Spliced(_, _, _, _, _)
Spliced(s, f, r, starts, from) ==
    IF starts = E THEN SubSeq(s, from, Len(s))
    ELSE SubSeq(s, from, Head(starts) - 1) \o r
         \o Spliced(s, f, r, Tail(starts), Head(starts) + Len(f))

NonOverlapping(s, f, r) == Spliced(s, f, r, ScanStarts(s, f, 1), 1)

(* the left fold of the global replace over the pairs *)
RECURSIVE Chained(_, _)
Chained(s, pairs) ==
    IF pairs = E THEN s
    ELSE Chained(replace(s, pairs[1][1], pairs[1][2]), Tail(pairs))

(* a non-empty end of r is the opposite end of f *)
Borders(f, r) ==
    \E n \in 1..Len(r) :
        \/ n <= Len(f) /\ SubSeq(r, Len(r) - n + 1, Len(r)) = SubSeq(f, 1, n)
        \/ n <= Len(f) /\ SubSeq(r, 1, n) = SubSeq(f, Len(f) - n + 1, Len(f))

Overlap(f, r) == r = E \/ Contains(r, f) \/ Contains(f, r) \/ Borders(f, r)

FindInReplace(pairs) ==
    \E m, n \in 1..Len(pairs) : Contains(pairs[n][2], pairs[m][1])

AnyOverlap(pairs) ==
    \E m, n \in 1..Len(pairs) : Overlap(pairs[m][1], pairs[n][2])

SecondRunDone == runs >= 2 /\ pc = "done" /\ result = "True"

----------------------------------------------------------------------------
(* C1 as stated: when no find text is a substring of any replace text, a *)
(* second run over the output of the first leaves the text as it is.     *)
C1_Original ==
    (SecondRunDone /\ ~FindInReplace(replacements)) => output_file.data = input_text

(* C1: when every replace text is non-empty and no find text overlaps any  *)
(* replace text (neither contains the other, and no non-empty end of one   *)
(* is the opposite end of the other), a second run over the output of the  *)
(* first run, with the same pair list, leaves the text as it is.           *)
C1_Idempotent ==
    (SecondRunDone /\ ~AnyOverlap(replacements)) => output_file.data = input_text

C1_Witness ==
    /\ SecondRunDone
    /\ Len(replacements) = 2
    /\ replacements[1][1] # replacements[2][1]
    /\ ~AnyOverlap(replacements)
    /\ Contains(input_text, <<"c", "c">>)
    /\ output_file.data = input_text

(* C2: the buffer after the first k pairs is the left fold of the global  *)
(* replace over those pairs starting from the source, so the final output *)
(* is the fold over the whole list; pairs (a,b),(b,c) on "a" give "c".    *)
C2_Chained ==
    /\ pc = "replace" => content = Chained(input_text, SubSeq(replacements, 1, k - 1))
    /\ PassDone => content = Chained(input_text, replacements)
    /\ (result = "True" /\ replacements # E) =>
            output_file.data = Chained(input_text, replacements)
    /\ ( /\ PassDone
         /\ replacements = << <<(<<"a">>), (<<"b">>)>>, <<(<<"b">>), (<<"c">>)>> >>
         /\ input_text = <<"a">> ) => content = <<"c">>

C2_Witness ==
    /\ pc = "done"
    /\ result = "True"
    /\ replacements = << <<(<<"a">>), (<<"b">>)>>, <<(<<"b">>), (<<"c">>)>> >>
    /\ input_text = <<"a">>
    /\ output_file.data = <<"c">>

(* C3: one pair's pass replaces exactly the occurrences a left-to-right   *)
(* non-overlapping scan of the buffer takes and copies the rest, without  *)
(* looking again at substituted text; pair (aa,a) on "aaaa" gives "aa".   *)
C3_NonOverlap ==
    [][pc = "replace" =>
          /\ content' = NonOverlapping(content, replacements[k][1], replacements[k][2])
          /\ (content = <<"a", "a", "a", "a">>
                /\ replacements[k] = <<(<<"a", "a">>), (<<"a">>)>>)
             => content' = <<"a", "a">>]_vars

C3_Witness ==
    /\ pc = "write"
    /\ replacements = << <<(<<"a", "a">>), (<<"a">>)>> >>
    /\ input_text = <<"a", "a", "a", "a">>
    /\ content = <<"a", "a">>

(* C4: when the loaded pair list is empty and no file operation fails, the *)
(* call returns True and the output file holds exactly the source text.    *)
C4_Passthrough ==
    /\ (pc = "done" /\ replacements = E /\ fault = "none") =>
            result = "True" /\ output_file = File(input_text)
    /\ (LoadDone /\ replacements = E) => pc \in {"copy", "done"}

C4_Witness ==
    /\ pc = "done"
    /\ SkipWarnings # E
    /\ replacements = E
    /\ result = "True"
    /\ Len(input_text) = MaxSrcLen
    /\ output_file = File(input_text)

(* C5: the pair list is the in-order subsequence of the data rows with at  *)
(* least 2 fields and a non-empty trimmed field 0, each as (trim field 0,  *)
(* trim field 1): every find is non-empty, duplicates are kept.            *)
C5_Loader ==
    /\ pc = "rows" => replacements = PairsOf(SubSeq(DataRows, 1, i))
    /\ LoadDone => replacements = PairsOf(DataRows)
    /\ \A n \in 1..Len(replacements) : replacements[n][1] # E

C5_Witness ==
    /\ LoadDone
    /\ Len(csv_rows) = 3
    /\ Len(replacements) = 2
    /\ replacements[1] = <<(<<"a">>), (<<"b">>)>>
    /\ replacements[2] = <<(<<"a">>), E>>

(* C6: the skip warnings are, in order, one per skipped data row, each     *)
(* naming the row's 1-based position in the record sequence (the header,   *)
(* when skipped, being row 1); rows after a skipped row are still loaded.  *)
C6_Warnings ==
    /\ LoadDone =>
         /\ Len(SkipWarnings) = Len(SkippedPositions)
         /\ \A n \in 1..Len(SkipWarnings) :
              /\ SkipWarnings[n].row = SkippedPositions[n]
              /\ (SkipWarnings[n].kind = "warn_columns")
                    <=> (Len(csv_rows[SkippedPositions[n]]) < 2)
         /\ Len(replacements) + Len(SkipWarnings) = Len(DataRows)
    /\ \A n \in 1..Len(SkipWarnings) :
         SkipWarnings[n].row = SkippedPositions[n]

C6_Witness ==
    /\ LoadDone
    /\ has_header
    /\ Len(csv_rows) = 3
    /\ Len(SkipWarnings) = 1
    /\ SkipWarnings[1].row = 2
    /\ Len(replacements) = 1

(* C7 as stated: with has_header, when no rows remain after the first row *)
(* is discarded, the list is empty and the empty-after-header warning is  *)
(* printed.                                                               *)
C7_Original ==
    (has_header /\ Len(csv_rows) <= 1 /\ LoadDone) =>
        replacements = E /\ Printed("warn_empty_header")

(* C7: with has_header, when at most the header row exists the list is    *)
(* empty and the call does not fail; the empty-after-header warning is    *)
(* printed exactly when there was no first row to discard (no rows at     *)
(* all), and a lone header row is discarded with the header-skipped note. *)
C7_HeaderOnly ==
    (has_header /\ Len(csv_rows) <= 1 /\ LoadDone) =>
        /\ replacements = E
        /\ Printed("warn_empty_header") <=> csv_rows = E
        /\ Printed("header_skipped") <=> csv_rows # E
        /\ result = "False" => fault # "none"

C7_Witness ==
    /\ has_header
    /\ csv_rows = E
    /\ pc = "done"
    /\ result = "True"
    /\ Printed("warn_empty_header")

(* C8: when the loaded list is empty, the diagnostics tell whether there  *)
(* were no data rows or every data row was skipped: a skip warning is     *)
(* printed exactly in the second case, with or without has_header.        *)
C8_Distinct ==
    (LoadDone /\ replacements = E) => (SkipWarnings # E <=> DataRows # E)

C8_Witness ==
    /\ LoadDone
    /\ has_header
    /\ replacements = E
    /\ Len(DataRows) = 2
    /\ Len(SkipWarnings) = 2

(* C9 as stated: the step that applies a pair prints the Replaced message *)
(* exactly when the pair's find text occurs in the buffer it is applied   *)
(* to.                                                                    *)
C9_Original ==
    [][pc = "replace" =>
          (printed' # printed <=> Contains(content, replacements[k][1]))]_vars

(* C10: True is returned only with the output file holding the whole      *)
(* result; a CSV or input read failure returns False and leaves the       *)
(* output file as it was; the file is untouched until the call ends; the  *)
(* call always ends by returning True or False.                           *)
C10_Frame ==
    /\ result = "True" => pc = "done" /\ output_file = File(content)
    /\ (result = "True" /\ replacements = E) => content = input_text
    /\ fault \in CsvFaults \cup InputFaults =>
         result = "False" /\ output_file = output_before
    /\ pc # "done" => output_file = output_before /\ result = "none"
    /\ pc = "done" => result \in {"True", "False"}

C10_Witness ==
    /\ pc = "done"
    /\ fault = "input_read"
    /\ replacements = E
    /\ output_before.exists
    /\ output_file = output_before
    /\ result = "False"

====
